---- MODULE Spec2Model ----
(***************************************************************************)
(* Message dispatch core of go-multi-chat-api: the dispatcher              *)
(* (MessageUseCase.SendMessage), the retry planner                         *)
(* (MessageUseCase.RetryFailedMessages), the worker pool and the recovery  *)
(* scanner (MessageProcessor), over the message_transactions and           *)
(* message_transaction_history tables.                                     *)
(*                                                                         *)
(* Every database round trip of a handler is one step, so that the other   *)
(* goroutines interleave exactly where the code lets them.  Time is        *)
(* counted in whole minutes.                                               *)
(***************************************************************************)
EXTENDS Integers, Sequences, FiniteSets, TLC

\* ------------------------------------------------------------------ bounds
\* rows the store may hold
MaxTx == 3
MaxProviders == 2
MaxBindings == 3
\* rows a caller may submit where the successors of a row are followed
LifeSubmits == 1
\* minutes the clock may advance: in the specifications of the worker pool,
\* and in those that follow a row up to its retry and its fallback
ShortElapsed == 1
MaxElapsed == 5
\* the longer run of one fallback chain: rows and minutes
ChainTx == 4
ChainElapsed == 15
\* process kills followed by a restart
MaxCrashes == 1
\* worker goroutines (100 in the deployment, 5 by default)
NumWorkers == 2
\* concurrent callers of SendMessage
NumSubmitters == 2
\* buffer of messageQueue, 100 in the source, scaled down
QueueCapacity == 1
\* row limit of GetPendingMessages, 1000 in the source, scaled down
PendingLimit == 2
\* users.message_rate_limit of the one user, scaled down
DailyLimit == 2
\* minute of the day (UTC) at which the process is first started: 23:57
StartTime == 1437

\* --------------------------------------------------------- program constants
RetryBackoff == 3
UndeliveredAfter == 5
MinutesPerDay == 1440
\* a NULL next_retry_at
NoTime == -1

Workers == 1..NumWorkers
Submitters == 1..NumSubmitters
\* user 1 exists, user 2 does not
KnownUser == 1
UserIds == {1, 2}
\* MessageRequest.Type
Hints == {"", "email"}
Terminal == {"success", "failed", "fallback_triggered"}

VARIABLES
    providers,   \* providers table: id -> [type, status]
    bindings,    \* user_providers rows, in ascending priority
    tx,          \* message_transactions: row id = index
    history,     \* message_transaction_history: <<message_id, status, k>>
    queue,       \* MessageProcessor.messageQueue: row ids
    now,         \* wall clock, minutes
    ticker,      \* the scanner's time.Ticker has a tick buffered
    sub,         \* per SendMessage caller: position and locals
    wrk,         \* per worker goroutine: position and locals
    scan,        \* watchPendingMessages goroutine: position and locals
    retry,       \* RetryFailedMessages caller: position and locals
    webhooks,    \* webhook fan-outs fired: <<row id, status, k, bindings posted to>>,
                 \* k-th for that pair
    enq,         \* per row: how many times it was put on the queue
    dropped,     \* <<row id, who>>: enqueue attempts dropped on a full queue
    crashes,     \* process kills so far
    atRestart,   \* <<row id, processing>> of the rows pending at the last restart
    stat,        \* GetMessageStatus caller: the id asked for, the row read, the response
    shutdown,    \* MessageProcessor.shutdown is closed
    posts        \* webhook POSTs over: <<row id, status, k, binding, outcome>>

storeVars == <<providers, bindings, tx, history>>
vars == <<providers, bindings, tx, history, queue, now, ticker, sub, wrk,
          scan, retry, webhooks, enq, dropped, crashes, atRestart, stat, shutdown, posts>>

\* ---------------------------------------------------------------- registry
Provider(t, s) == [type |-> t, status |-> s]
Binding(p, s, w) == [userId |-> KnownUser, providerId |-> p, status |-> s, webhook |-> w]

\* signal, then email, then sms: all active
RegistryChain ==
    [providers |-> (1 :> Provider("signal", TRUE)) @@ (2 :> Provider("email", TRUE))
                   @@ (3 :> Provider("sms", TRUE)),
     bindings |-> <<Binding(1, TRUE, TRUE), Binding(2, TRUE, FALSE), Binding(3, TRUE, FALSE)>>]
\* the second binding's provider is switched off
RegistryInactive ==
    [providers |-> (1 :> Provider("signal", TRUE)) @@ (2 :> Provider("email", TRUE))
                   @@ (3 :> Provider("signal", FALSE)),
     bindings |-> <<Binding(1, TRUE, TRUE), Binding(3, TRUE, FALSE), Binding(2, TRUE, FALSE)>>]
\* the second binding's provider row is gone
RegistryMissing ==
    [providers |-> (1 :> Provider("signal", TRUE)) @@ (2 :> Provider("email", TRUE)),
     bindings |-> <<Binding(1, TRUE, TRUE), Binding(4, TRUE, FALSE), Binding(2, TRUE, FALSE)>>]
\* two signal providers, both bound and active
RegistryPair ==
    [providers |-> (1 :> Provider("signal", TRUE)) @@ (2 :> Provider("signal", TRUE)),
     bindings |-> <<Binding(1, TRUE, FALSE), Binding(2, TRUE, FALSE)>>]
\* one binding only
RegistrySingle ==
    [providers |-> (1 :> Provider("signal", TRUE)),
     bindings |-> <<Binding(1, TRUE, TRUE)>>]
\* the user's only binding is switched off
RegistryUnbound ==
    [providers |-> (1 :> Provider("signal", TRUE)),
     bindings |-> <<Binding(1, FALSE, FALSE)>>]
Registries ==
    {RegistryChain, RegistryInactive, RegistryMissing, RegistrySingle, RegistryUnbound}

\* every registry of MaxProviders providers, of type signal or email and
\* switched on or off, with up to MaxBindings bindings of the known user, each
\* switched on or off, to distinct providers (one of them without a row)
ProviderTables ==
    [1..MaxProviders -> {Provider(t, st) : t \in {"signal", "email"}, st \in BOOLEAN}]
BindingOrders ==
    {o \in UNION {[1..n -> 1..(MaxProviders + 1)] : n \in 0..MaxBindings} :
        \A i, j \in DOMAIN o : i # j => o[i] # o[j]}
BindingLists ==
    UNION {{[j \in DOMAIN o |-> Binding(o[j], st[j], FALSE)] : st \in [DOMAIN o -> BOOLEAN]} :
              o \in BindingOrders}
AllRegistries == {[providers |-> pt, bindings |-> bl] : pt \in ProviderTables, bl \in BindingLists}

\* ----------------------------------------------------------------- helpers
Ids == DOMAIN tx
StartOfDay(t) == (t \div MinutesPerDay) * MinutesPerDay

\* ids of s in ascending order
RECURSIVE SortedSeq(_)
SortedSeq(s) ==
    IF s = {} THEN <<>>
    ELSE LET m == CHOOSE x \in s : \A y \in s : x <= y
         IN <<m>> \o SortedSeq(s \ {m})

\* UserProviderRepository.GetUserProvidersByPriority
GetUserProvidersByPriority(u) ==
    SelectSeq(bindings, LAMBDA b : b.userId = u /\ b.status)

\* ProviderRepository.GetByID succeeds
ProviderExists(p) == p \in DOMAIN providers

\* MessageTransactionRepository.CountUserMessagesForToday
CountUserMessagesForToday(u) ==
    Cardinality({i \in Ids : /\ tx[i].userId = u
                             /\ tx[i].createdDay >= StartOfDay(now)
                             /\ tx[i].createdDay < StartOfDay(now) + MinutesPerDay})

\* first binding whose provider exists and is active, 0 (the zero value) if none
FirstActive(ups) ==
    LET ok == SelectSeq(ups, LAMBDA b : ProviderExists(b.providerId)
                                        /\ providers[b.providerId].status /\ b.status)
    IN IF Len(ok) > 0 THEN ok[1].providerId ELSE 0

\* a faulty SelectProvider, for C17: the requested type is ignored
SelectProviderUnsteered(ups, hint) == FirstActive(ups)

\* provider selection of SendMessage
SelectProvider(ups, hint) ==
    IF hint # ""
    THEN LET matching == SelectSeq(ups, LAMBDA b : ProviderExists(b.providerId)
                                       /\ providers[b.providerId].type = hint
                                       /\ providers[b.providerId].status /\ b.status)
         IN IF Len(matching) > 0 THEN matching[1].providerId ELSE FirstActive(ups)
    ELSE FirstActive(ups)

\* a row as MessageTransactionRepository.Create stores it.  created_at is kept
\* to the day (its only reader compares it with the bounds of a day);
\* processed_at, which the scanner's lock writes and nothing reads, is left out.
\* origin and parent record who created the row and for which row.
NewRow(u, p, rc, origin, parent) ==
    [userId |-> u, providerId |-> p, status |-> "pending", processing |-> FALSE,
     retryCount |-> rc, nextRetryAt |-> NoTime,
     errorMessage |-> "", createdDay |-> StartOfDay(now), updatedAt |-> now,
     origin |-> origin, parent |-> parent]

\* the non-blocking send on messageQueue (the range loops that offer rows take
\* the address of a per-iteration variable: Go 1.22 and later): select { case queue <- msg: default: }
QueueFull == Len(queue) >= QueueCapacity
\* a faulty Enqueue, for C7: a send that always gets through
EnqueueUnbounded(q, id) == Append(q, id)
Enqueue(q, id) == IF Len(q) < QueueCapacity THEN Append(q, id) ELSE q
EnqCount(e, q, id) == IF Len(q) < QueueCapacity THEN [e EXCEPT ![id] = @ + 1] ELSE e
Dropped(d, q, id, who) == IF Len(q) < QueueCapacity THEN d ELSE d \cup {<<id, who>>}

\* ------------------------------------------------------------ initial state
\* the HTTP status codes SendController.Message answers with
StatusAccepted == 202
StatusBadRequest == 400
StatusInternalServerError == 500
\* no answer written yet
NoAnswer == [code |-> 0, id |-> 0, status |-> "none", message |-> ""]
\* the errors SendMessage returns
UseCaseErrors == {"internal", "rateLimited"}
\* a faulty Message, for C26: a call that returns neither a response nor an
\* error is answered as accepted
MessageAnswerNilAccepted(result, id) ==
    IF result = "invalid" THEN [NoAnswer EXCEPT !.code = StatusBadRequest]
    ELSE IF result \in UseCaseErrors
    THEN [NoAnswer EXCEPT !.code = StatusInternalServerError]
    ELSE [code |-> StatusAccepted, id |-> id, status |-> "pending",
          message |-> "Message queued for processing"]
\* SendController.Message, the answer written for the outcome of the call:
\* "invalid" when ShouldBindJSON failed, else what SendMessage returned.  On
\* (nil, nil) the read of useCaseResponse.ID panics and gin.Recovery answers
\* 500 with an empty body.
MessageAnswer(result, id) ==
    IF result = "invalid" THEN [NoAnswer EXCEPT !.code = StatusBadRequest]
    ELSE IF result \in UseCaseErrors
    THEN [NoAnswer EXCEPT !.code = StatusInternalServerError]
    ELSE IF result = "nil" THEN [NoAnswer EXCEPT !.code = StatusInternalServerError]
    ELSE [code |-> StatusAccepted, id |-> id, status |-> "pending",
          message |-> "Message queued for processing"]
\* sub[s]: position of caller s in Message / SendMessage, what SendMessage
\* returned and the answer Message wrote
IdleSub == [pc |-> "idle", user |-> 0, providerId |-> 0, id |-> 0, result |-> "none",
            answer |-> NoAnswer]
IdleWrk == [pc |-> "idle", id |-> 0, out |-> "none"]
\* NewMessageProcessor starts the scanner, which first runs checkPendingMessages
StartScan == [pc |-> "startup", sel |-> <<>>, fresh |-> 0, first |-> TRUE]
IdleRetry == [pc |-> "idle", sel |-> <<>>, fresh |-> 0]
IdleStat == [id |-> 0, message |-> [status |-> "none"], result |-> [id |-> 0, status |-> "none"]]

InitIn(R) ==
    /\ \E r \in R : providers = r.providers /\ bindings = r.bindings
    /\ tx = <<>>
    /\ history = {}
    /\ queue = <<>>
    /\ now = StartTime
    /\ ticker = FALSE
    /\ sub = [s \in Submitters |-> IdleSub]
    /\ wrk = [w \in Workers |-> IdleWrk]
    /\ scan = StartScan
    /\ retry = IdleRetry
    /\ webhooks = {}
    /\ enq = <<>>
    /\ dropped = {}
    /\ crashes = 0
    /\ atRestart = {}
    /\ stat = IdleStat
    /\ shutdown = FALSE
    /\ posts = {}

Init == InitIn(Registries)

\* ---------------------------------------------------------------- the clock
\* a minute passes; the scanner's ticker (period one minute) fires
Advance(limit) ==
    /\ now < StartTime + limit
    /\ now' = now + 1
    /\ ticker' = TRUE
    /\ UNCHANGED <<posts, shutdown, stat, storeVars, queue, sub, wrk, scan, retry, webhooks, enq, dropped,
                   crashes, atRestart>>

\* a quiet period of d minutes passes, in which nothing but the clock moves
ElapseWithin(d, limit) ==
    /\ now + d <= StartTime + limit
    /\ now' = now + d
    /\ ticker' = TRUE
    /\ UNCHANGED <<posts, shutdown, stat, storeVars, queue, sub, wrk, scan, retry, webhooks, enq, dropped,
                   crashes, atRestart>>

Elapse(d) == ElapseWithin(d, MaxElapsed)

\* ------------------------------------------------- MessageUseCase.SendMessage
\* user lookup, daily count, binding lookup and provider selection: reads only.
\* On an empty binding list the code returns (nil, err) with err the nil error
\* of the lookup: the result "nil", neither a response nor an error.
SubmitCheck(s, u, h, cap) ==
    /\ sub[s].pc = "idle"
    /\ Len(tx) < cap
    /\ LET ups == GetUserProvidersByPriority(u)
           p == SelectProvider(ups, h)
           err == IF u # KnownUser THEN "internal"
                  ELSE IF CountUserMessagesForToday(u) >= DailyLimit THEN "rateLimited"
                  ELSE IF Len(ups) = 0 THEN "nil"
                  ELSE IF ~ProviderExists(p) THEN "internal"
                  ELSE "none"
       IN sub' = [sub EXCEPT ![s] =
                    IF err # "none"
                    THEN [IdleSub EXCEPT !.user = u, !.result = err,
                                         !.answer = MessageAnswer(err, 0)]
                    ELSE [pc |-> "create", user |-> u, providerId |-> p,
                          id |-> 0, result |-> "none", answer |-> NoAnswer]]
    /\ UNCHANGED <<posts, shutdown, stat, storeVars, queue, now, ticker, wrk, scan, retry, webhooks, enq,
                   dropped, crashes, atRestart>>

\* messageTransactionRepository.Create
SubmitCreate(s) ==
    /\ sub[s].pc = "create"
    /\ Len(tx) < MaxTx
    /\ tx' = Append(tx, NewRow(sub[s].user, sub[s].providerId, 0, "submit", 0))
    /\ enq' = Append(enq, 0)
    /\ sub' = [sub EXCEPT ![s].pc = "enqueue", ![s].id = Len(tx) + 1]
    /\ UNCHANGED <<posts, shutdown, stat, providers, bindings, history, queue, now, ticker, wrk, scan, retry,
                   webhooks, dropped, crashes, atRestart>>

\* the insert fails: SendMessage returns the error
SubmitCreateFails(s) ==
    /\ sub[s].pc = "create"
    /\ sub' = [sub EXCEPT ![s] = [IdleSub EXCEPT !.result = "internal",
                                                 !.answer = MessageAnswer("internal", 0)]]
    /\ UNCHANGED <<posts, shutdown, stat, storeVars, queue, now, ticker, wrk, scan, retry, webhooks, enq,
                   dropped, crashes, atRestart>>

\* messageProcessor.EnqueueMessage, then the response {id, "pending"}
SubmitEnqueue(s) ==
    /\ sub[s].pc = "enqueue"
    /\ queue' = Enqueue(queue, sub[s].id)
    /\ enq' = EnqCount(enq, queue, sub[s].id)
    /\ dropped' = Dropped(dropped, queue, sub[s].id, "submit")
    /\ sub' = [sub EXCEPT ![s] = [IdleSub EXCEPT !.id = sub[s].id, !.result = "pending",
                                                 !.answer = MessageAnswer("pending", sub[s].id)]]
    /\ UNCHANGED <<posts, shutdown, stat, storeVars, now, ticker, wrk, scan, retry, webhooks, crashes, atRestart>>

\* SendController.Message on a request that ShouldBindJSON rejects: answered
\* 400 before SendMessage is called
MessageInvalid(s) ==
    /\ sub[s].pc = "idle"
    /\ sub' = [sub EXCEPT ![s] = [IdleSub EXCEPT !.result = "invalid",
                                                 !.answer = MessageAnswer("invalid", 0)]]
    /\ UNCHANGED <<posts, shutdown, stat, storeVars, queue, now, ticker, wrk, scan, retry, webhooks, enq,
                   dropped, crashes, atRestart>>

\* the calls of SendMessage made by the callers in S, begun while the store
\* holds fewer than cap rows
Submit(S, cap) ==
    \E s \in S :
        \/ \E u \in UserIds, h \in Hints : SubmitCheck(s, u, h, cap)
        \/ SubmitCreate(s)
        \/ SubmitEnqueue(s)

\* ------------------------------------------------- MessageProcessor.worker
\* outcome of the provider lookup and of the adapter call in processMessage
Outcomes(p) ==
    IF ~ProviderExists(p) THEN {"notfound"}
    ELSE IF ~providers[p].status THEN {"inactive"}
    ELSE IF providers[p].type = "signal" THEN {"ok", "sendError"}
    ELSE IF providers[p].type = "email" THEN {"notImplemented"}
    ELSE {"unsupported"}

\* the sendErr that processMessage tests after the switch.  The signal case
\* assigns the adapter's error with "data, sendErr := ...", which declares a
\* new sendErr inside the case: the outer one stays nil whatever SendV2 returns.
OuterSendErr(out) == IF out \in {"ok", "sendError"} THEN "" ELSE out

\* a faulty OutcomeUpdate, for C10: the failure is recorded without a retry time
OutcomeUpdateNoRetryTime(row, out) ==
    IF OuterSendErr(out) = ""
    THEN [row EXCEPT !.status = "success", !.errorMessage = "", !.processing = FALSE,
                     !.updatedAt = now]
    ELSE [row EXCEPT !.status = "failed", !.errorMessage = out, !.processing = FALSE,
                     !.updatedAt = now]

\* the update map processMessage / updateMessageStatus passes to Update
OutcomeUpdate(row, out) ==
    IF OuterSendErr(out) = ""
    THEN [row EXCEPT !.status = "success", !.errorMessage = "", !.processing = FALSE,
                     !.updatedAt = now]
    ELSE [row EXCEPT !.status = "failed", !.errorMessage = out, !.processing = FALSE,
                     !.nextRetryAt = now + RetryBackoff, !.updatedAt = now]

\* MoveToHistory: one more history row for the active row id as it is read
\* now.  A history row is <<message_id, status, k>>, the k-th with that
\* message_id and status; its other columns copy columns of the active row
\* that never change (user_id, provider_id, recipients, message, retry_count).
MoveToHistory(h, id) ==
    h \cup {<<id, tx[id].status,
              1 + Cardinality({r \in h : r[1] = id /\ r[2] = tx[id].status})>>}

\* GetUserProviders(userID) and the loop of sendWebhookNotification: the
\* bindings of the user, whatever their status, whose config decodes to an
\* enabled webhook with a URL; each of them gets one POST
WebhookTargets(u) ==
    {j \in DOMAIN bindings : bindings[j].userId = u /\ bindings[j].webhook}

\* sendWebhookNotification: one more fan-out for (id, status), with the
\* bindings it posts to
Fire(wh, id, status) ==
    wh \cup {<<id, status, 1 + Cardinality({h \in wh : h[1] = id /\ h[2] = status}),
               WebhookTargets(tx[id].userId)>>}

\* msg := <-p.messageQueue, provider lookup and adapter call
WorkerTake(w) ==
    /\ wrk[w].pc = "idle"
    /\ Len(queue) > 0
    /\ queue' = Tail(queue)
    /\ \E out \in Outcomes(tx[Head(queue)].providerId) :
           wrk' = [wrk EXCEPT ![w] = [pc |-> "update", id |-> Head(queue), out |-> out]]
    /\ UNCHANGED <<posts, shutdown, stat, storeVars, now, ticker, sub, scan, retry, webhooks, enq, dropped,
                   crashes, atRestart>>

\* messageTransactionRepository.Update with the outcome
WorkerUpdate(w) ==
    /\ wrk[w].pc = "update"
    /\ tx' = [tx EXCEPT ![wrk[w].id] = OutcomeUpdate(@, wrk[w].out)]
    /\ wrk' = [wrk EXCEPT ![w].pc = "history"]
    /\ UNCHANGED <<posts, shutdown, stat, providers, bindings, history, queue, now, ticker, sub, scan, retry,
                   webhooks, enq, dropped, crashes, atRestart>>

\* the update fails: logged, processMessage goes on
WorkerUpdateFails(w) ==
    /\ wrk[w].pc = "update"
    /\ wrk' = [wrk EXCEPT ![w].pc = "history"]
    /\ UNCHANGED <<posts, shutdown, stat, storeVars, queue, now, ticker, sub, scan, retry, webhooks, enq,
                   dropped, crashes, atRestart>>

\* processMessage fires the webhook; updateMessageStatus (provider missing or
\* inactive) does not
WebhookAfter(wh, w) ==
    IF OuterSendErr(wrk[w].out) = "" THEN Fire(wh, wrk[w].id, "success")
    ELSE IF wrk[w].out \in {"notfound", "inactive"} THEN wh
    ELSE Fire(wh, wrk[w].id, "failed")

\* MoveToHistory, then the webhook fan-out
WorkerHistory(w) ==
    /\ wrk[w].pc = "history"
    /\ history' = MoveToHistory(history, wrk[w].id)
    /\ webhooks' = WebhookAfter(webhooks, w)
    /\ wrk' = [wrk EXCEPT ![w] = IdleWrk]
    /\ UNCHANGED <<posts, shutdown, stat, providers, bindings, tx, queue, now, ticker, sub, scan, retry, enq,
                   dropped, crashes, atRestart>>

\* the history insert fails: logged, the webhook is fired all the same
WorkerHistoryFails(w) ==
    /\ wrk[w].pc = "history"
    /\ webhooks' = WebhookAfter(webhooks, w)
    /\ wrk' = [wrk EXCEPT ![w] = IdleWrk]
    /\ UNCHANGED <<posts, shutdown, stat, storeVars, queue, now, ticker, sub, scan, retry, enq, dropped,
                   crashes, atRestart>>

\* the worker goroutines in W
Worker(W) ==
    \E w \in W :
        \/ WorkerTake(w)
        \/ WorkerUpdate(w)
        \/ WorkerHistory(w)

\* their database writes failing
WorkerFails(W) ==
    \E w \in W :
        \/ WorkerUpdateFails(w)
        \/ WorkerHistoryFails(w)

\* --------------------------------------- MessageProcessor.sendWebhookRequest
\* the POSTs started: one goroutine per fan-out and binding it posts to
Started == UNION {{<<h[1], h[2], h[3], j>> : j \in h[4]} : h \in webhooks}
\* how client.Do ends: a response (2xx or not), an error, the 10 s timeout
PostOutcomes == {"2xx", "non2xx", "error", "timeout"}
\* the outcomes recorded for POST r
Ended(r) == {q \in posts : <<q[1], q[2], q[3], q[4]>> = r}
\* a faulty InFlight, for C34: a POST that ended without a 2xx is sent again
InFlightUntilDelivered == {r \in Started : \A q \in Ended(r) : q[5] # "2xx"}
\* the goroutines that have not returned yet
InFlight == {r \in Started : Ended(r) = {}}
\* sendWebhookRequest returns: one client.Do, the outcome is logged
WebhookRequest ==
    /\ \E r \in InFlight, o \in PostOutcomes :
           posts' = posts \cup {<<r[1], r[2], r[3], r[4], o>>}
    /\ UNCHANGED <<shutdown, stat, storeVars, queue, now, ticker, sub, wrk, scan, retry,
                   webhooks, enq, dropped, crashes, atRestart>>

\* ------------------------------------- MessageProcessor.watchPendingMessages
\* what follows checkPendingMessages: the startup run is followed by the wait
\* for the ticker, a ticker run by checkUndeliveredMessages
AfterPassA == IF scan.first THEN "wait" ELSE "passB"

\* the rows "status = pending AND processing = false"
PendingRows == {i \in Ids : tx[i].status = "pending" /\ ~tx[i].processing}

\* the result sets SELECT ... LIMIT PendingLimit may return
PendingSelections ==
    IF Cardinality(PendingRows) <= PendingLimit THEN {PendingRows}
    ELSE {S \in SUBSET PendingRows : Cardinality(S) = PendingLimit}

\* GetPendingMessages, the SELECT inside the transaction; the startup run
\* starts at once, a later run on a tick
ScanSelect ==
    /\ \/ scan.pc = "startup" /\ UNCHANGED ticker
       \/ scan.pc = "wait" /\ ticker /\ ticker' = FALSE
    /\ \E S \in PendingSelections :
          scan' = IF S = {}
                  THEN [scan EXCEPT !.pc = AfterPassA, !.first = FALSE]
                  ELSE [scan EXCEPT !.pc = "lock", !.sel = SortedSeq(S)]
    /\ UNCHANGED <<posts, shutdown, stat, storeVars, queue, now, sub, wrk, retry, webhooks, enq, dropped,
                   crashes, atRestart>>

\* UPDATE ... SET processing = true, processed_at = now WHERE id IN (ids)
LockRows(t, ids) ==
    [i \in DOMAIN t |->
        IF i \in ids
        THEN [t[i] EXCEPT !.processing = TRUE, !.updatedAt = now]
        ELSE t[i]]

Range(f) == {f[i] : i \in DOMAIN f}

\* GetPendingMessages, the UPDATE and the commit
ScanLock ==
    /\ scan.pc = "lock"
    /\ tx' = LockRows(tx, Range(scan.sel))
    /\ scan' = [scan EXCEPT !.pc = "offer"]
    /\ UNCHANGED <<posts, shutdown, stat, providers, bindings, history, queue, now, ticker, sub, wrk, retry,
                   webhooks, enq, dropped, crashes, atRestart>>

\* the UPDATE or the commit fails: rollback, checkPendingMessages returns
ScanLockFails ==
    /\ scan.pc = "lock"
    /\ scan' = [scan EXCEPT !.pc = AfterPassA, !.sel = <<>>, !.first = FALSE]
    /\ UNCHANGED <<posts, shutdown, stat, storeVars, queue, now, ticker, sub, wrk, retry, webhooks, enq,
                   dropped, crashes, atRestart>>

\* checkPendingMessages, one round of the loop that offers the rows to the queue
ScanOffer ==
    /\ scan.pc = "offer"
    /\ queue' = Enqueue(queue, Head(scan.sel))
    /\ enq' = EnqCount(enq, queue, Head(scan.sel))
    /\ dropped' = Dropped(dropped, queue, Head(scan.sel), "passA")
    /\ scan' = IF Len(scan.sel) = 1
               THEN [scan EXCEPT !.pc = AfterPassA, !.sel = <<>>, !.first = FALSE]
               ELSE [scan EXCEPT !.sel = Tail(@)]
    /\ UNCHANGED <<posts, shutdown, stat, storeVars, now, ticker, sub, wrk, retry, webhooks, crashes, atRestart>>

\* the rows "status = success AND processing = false AND updated_at <= now - 5 min"
UndeliveredRows ==
    {i \in Ids : /\ tx[i].status = "success"
                 /\ ~tx[i].processing
                 /\ tx[i].updatedAt <= now - UndeliveredAfter}

\* GetUndeliveredMessages
PassBSelect ==
    /\ scan.pc = "passB"
    /\ scan' = IF UndeliveredRows = {}
               THEN [scan EXCEPT !.pc = "wait"]
               ELSE [scan EXCEPT !.pc = "fbCreate", !.sel = SortedSeq(UndeliveredRows)]
    /\ UNCHANGED <<posts, shutdown, stat, storeVars, queue, now, ticker, sub, wrk, retry, webhooks, enq,
                   dropped, crashes, atRestart>>

\* a faulty NextProvider, for C23: the binding after the first is taken
NextProviderSecond(u, p) ==
    LET other == SelectSeq(GetUserProvidersByPriority(u), LAMBDA b : b.providerId # p)
    IN IF Len(other) > 1 THEN other[2].providerId
       ELSE IF Len(other) > 0 THEN other[1].providerId ELSE 0

\* a faulty NextProvider, for C33: the row's own provider is not excluded
NextProviderAny(u, p) ==
    LET ups == GetUserProvidersByPriority(u)
    IN IF Len(ups) > 0 THEN ups[1].providerId ELSE 0

\* the first binding, in priority order, of another provider than p; 0 if none
NextProvider(u, p) ==
    LET other == SelectSeq(GetUserProvidersByPriority(u), LAMBDA b : b.providerId # p)
    IN IF Len(other) > 0 THEN other[1].providerId ELSE 0

\* the loop of checkUndeliveredMessages goes to its next row
PassBNext == IF Len(scan.sel) = 1
             THEN [scan EXCEPT !.pc = "wait", !.sel = <<>>, !.fresh = 0]
             ELSE [scan EXCEPT !.pc = "fbCreate", !.sel = Tail(@), !.fresh = 0]

\* no alternative provider: the row is skipped
PassBSkip ==
    /\ scan.pc = "fbCreate"
    /\ NextProvider(tx[Head(scan.sel)].userId, tx[Head(scan.sel)].providerId) = 0
    /\ scan' = PassBNext
    /\ UNCHANGED <<posts, shutdown, stat, storeVars, queue, now, ticker, sub, wrk, retry, webhooks, enq,
                   dropped, crashes, atRestart>>

\* the successor row is created
PassBCreateUpTo(cap) ==
    /\ scan.pc = "fbCreate"
    /\ Len(tx) < cap
    /\ LET m == Head(scan.sel)
           p == NextProvider(tx[m].userId, tx[m].providerId)
       IN /\ p # 0
          /\ tx' = Append(tx, NewRow(tx[m].userId, p, 0, "fallback", m))
    /\ enq' = Append(enq, 0)
    /\ scan' = [scan EXCEPT !.pc = "fbUpdate", !.fresh = Len(tx) + 1]
    /\ UNCHANGED <<posts, shutdown, stat, providers, bindings, history, queue, now, ticker, sub, wrk, retry,
                   webhooks, dropped, crashes, atRestart>>

PassBCreate == PassBCreateUpTo(MaxTx)

\* the insert fails: the row is skipped
PassBCreateFails ==
    /\ scan.pc = "fbCreate"
    /\ NextProvider(tx[Head(scan.sel)].userId, tx[Head(scan.sel)].providerId) # 0
    /\ scan' = PassBNext
    /\ UNCHANGED <<posts, shutdown, stat, storeVars, queue, now, ticker, sub, wrk, retry, webhooks, enq,
                   dropped, crashes, atRestart>>

\* the original row is flipped to fallback_triggered
PassBUpdate ==
    /\ scan.pc = "fbUpdate"
    /\ tx' = [tx EXCEPT ![Head(scan.sel)] =
                [@ EXCEPT !.status = "fallback_triggered", !.errorMessage = "undelivered",
                          !.processing = FALSE, !.updatedAt = now]]
    /\ scan' = [scan EXCEPT !.pc = "fbHistory"]
    /\ UNCHANGED <<posts, shutdown, stat, providers, bindings, history, queue, now, ticker, sub, wrk, retry,
                   webhooks, enq, dropped, crashes, atRestart>>

\* that update fails: logged, the loop body goes on
PassBUpdateFails ==
    /\ scan.pc = "fbUpdate"
    /\ scan' = [scan EXCEPT !.pc = "fbHistory"]
    /\ UNCHANGED <<posts, shutdown, stat, storeVars, queue, now, ticker, sub, wrk, retry, webhooks, enq,
                   dropped, crashes, atRestart>>

\* MoveToHistory of the original, then the successor is offered to the queue
PassBHistory ==
    /\ scan.pc = "fbHistory"
    /\ history' = MoveToHistory(history, Head(scan.sel))
    /\ queue' = Enqueue(queue, scan.fresh)
    /\ enq' = EnqCount(enq, queue, scan.fresh)
    /\ dropped' = Dropped(dropped, queue, scan.fresh, "passB")
    /\ scan' = PassBNext
    /\ UNCHANGED <<posts, shutdown, stat, providers, bindings, tx, now, ticker, sub, wrk, retry, webhooks,
                   crashes, atRestart>>

\* the history insert fails: logged, the successor is offered all the same
PassBHistoryFails ==
    /\ scan.pc = "fbHistory"
    /\ queue' = Enqueue(queue, scan.fresh)
    /\ enq' = EnqCount(enq, queue, scan.fresh)
    /\ dropped' = Dropped(dropped, queue, scan.fresh, "passB")
    /\ scan' = PassBNext
    /\ UNCHANGED <<posts, shutdown, stat, storeVars, now, ticker, sub, wrk, retry, webhooks, crashes, atRestart>>

\* checkPendingMessages, and checkUndeliveredMessages up to its query
PassA ==
    \/ ScanSelect
    \/ ScanLock
    \/ ScanOffer
    \/ PassBSelect

\* the loop of checkUndeliveredMessages
PassB ==
    \/ PassBSkip
    \/ PassBCreate
    \/ PassBUpdate
    \/ PassBHistory

\* the scanner's database writes failing
PassAFails == ScanLockFails
PassBFails ==
    \/ PassBCreateFails
    \/ PassBUpdateFails
    \/ PassBHistoryFails

\* ---------------------------------------- MessageUseCase.RetryFailedMessages
\* the rows "status = failed AND next_retry_at <= now"
FailedRowsForRetry ==
    {i \in Ids : /\ tx[i].status = "failed"
                 /\ tx[i].nextRetryAt # NoTime
                 /\ tx[i].nextRetryAt <= now}

\* a faulty RetryTarget, for C19: the next provider is not looked at
RetryTargetUnchecked(u, p) ==
    LET ups == GetUserProvidersByPriority(u)
        hit == {i \in 1..(Len(ups) - 1) : ups[i].providerId = p}
    IN IF hit = {} THEN 0
       ELSE ups[(CHOOSE i \in hit : \A j \in hit : i <= j) + 1].providerId

\* the provider of the binding right after the one of provider p, if that
\* binding and its provider are active; 0 if there is none.  (The bindings of
\* a user name each provider once.)
RetryTarget(u, p) ==
    LET ups == GetUserProvidersByPriority(u)
        hit == {i \in 1..(Len(ups) - 1) :
                   /\ ups[i].providerId = p
                   /\ ProviderExists(ups[i + 1].providerId)
                   /\ providers[ups[i + 1].providerId].status
                   /\ ups[i + 1].status}
    IN IF hit = {} THEN 0
       ELSE ups[(CHOOSE i \in hit : \A j \in hit : i <= j) + 1].providerId

\* GetFailedMessagesForRetry
RetrySelect ==
    /\ retry.pc = "idle"
    /\ retry' = IF FailedRowsForRetry = {} THEN retry
                ELSE [retry EXCEPT !.pc = "plan", !.sel = SortedSeq(FailedRowsForRetry)]
    /\ UNCHANGED <<posts, shutdown, stat, storeVars, queue, now, ticker, sub, wrk, scan, webhooks, enq,
                   dropped, crashes, atRestart>>

\* the outer loop of RetryFailedMessages goes to its next row
RetryNext == IF Len(retry.sel) = 1 THEN IdleRetry
             ELSE [retry EXCEPT !.pc = "plan", !.sel = Tail(@), !.fresh = 0]

\* no next provider, or it is inactive: the row is skipped
RetrySkip ==
    /\ retry.pc = "plan"
    /\ RetryTarget(tx[Head(retry.sel)].userId, tx[Head(retry.sel)].providerId) = 0
    /\ retry' = RetryNext
    /\ UNCHANGED <<posts, shutdown, stat, storeVars, queue, now, ticker, sub, wrk, scan, webhooks, enq,
                   dropped, crashes, atRestart>>

\* the successor row is created
RetryCreate ==
    /\ retry.pc = "plan"
    /\ Len(tx) < MaxTx
    /\ LET f == Head(retry.sel)
           p == RetryTarget(tx[f].userId, tx[f].providerId)
       IN /\ p # 0
          /\ tx' = Append(tx, NewRow(tx[f].userId, p, tx[f].retryCount + 1, "retry", f))
    /\ enq' = Append(enq, 0)
    /\ retry' = [retry EXCEPT !.pc = "enqueue", !.fresh = Len(tx) + 1]
    /\ UNCHANGED <<posts, shutdown, stat, providers, bindings, history, queue, now, ticker, sub, wrk, scan,
                   webhooks, dropped, crashes, atRestart>>

\* the insert fails: the row is skipped
RetryCreateFails ==
    /\ retry.pc = "plan"
    /\ RetryTarget(tx[Head(retry.sel)].userId, tx[Head(retry.sel)].providerId) # 0
    /\ retry' = RetryNext
    /\ UNCHANGED <<posts, shutdown, stat, storeVars, queue, now, ticker, sub, wrk, scan, webhooks, enq,
                   dropped, crashes, atRestart>>

\* messageProcessor.EnqueueMessage of the successor
RetryEnqueue ==
    /\ retry.pc = "enqueue"
    /\ queue' = Enqueue(queue, retry.fresh)
    /\ enq' = EnqCount(enq, queue, retry.fresh)
    /\ dropped' = Dropped(dropped, queue, retry.fresh, "retry")
    /\ retry' = RetryNext
    /\ UNCHANGED <<posts, shutdown, stat, storeVars, now, ticker, sub, wrk, scan, webhooks, crashes, atRestart>>

RetryFailed ==
    \/ RetrySelect
    \/ RetrySkip
    \/ RetryCreate
    \/ RetryEnqueue

\* ------------------------------------------ MessageUseCase.GetMessageStatus
\* the absence of a row (GetByID returns an error)
NoRow == [status |-> "none"]

\* the MessageStatusResponse built from the row read
StatusResponse(i, row) ==
    [id |-> i, status |-> row.status, errorMessage |-> row.errorMessage,
     retryCount |-> row.retryCount, createdAt |-> row.createdDay,
     updatedAt |-> row.updatedAt]

\* a faulty GetMessageStatus, for C14: a read that stamps the row it reads
GetMessageStatusStamping(i) ==
    /\ i \in Ids
    /\ stat' = [id |-> i, message |-> tx[i], result |-> StatusResponse(i, tx[i])]
    /\ tx' = [tx EXCEPT ![i].updatedAt = now]
    /\ UNCHANGED <<posts, shutdown, providers, bindings, history, queue, now, ticker, sub, wrk, scan,
                   retry, webhooks, enq, dropped, crashes, atRestart>>

\* GetByID of the row asked for, then the response or the error
GetMessageStatus(i) ==
    /\ stat' = IF i \in Ids
               THEN [id |-> i, message |-> tx[i], result |-> StatusResponse(i, tx[i])]
               ELSE [id |-> i, message |-> NoRow, result |-> [id |-> i, status |-> "notFound"]]
    /\ UNCHANGED <<posts, shutdown, storeVars, queue, now, ticker, sub, wrk, scan, retry, webhooks,
                   enq, dropped, crashes, atRestart>>

\* ------------------------------------------------------- crash and restart
\* the process is killed and started again: the tables survive, the queue and
\* every goroutine's locals are lost, NewMessageProcessor runs anew
Crash ==
    /\ crashes < MaxCrashes
    /\ crashes' = crashes + 1
    /\ queue' = <<>>
    /\ ticker' = FALSE
    /\ sub' = [s \in Submitters |-> IdleSub]
    /\ wrk' = [w \in Workers |-> IdleWrk]
    /\ scan' = StartScan
    /\ retry' = IdleRetry
    /\ atRestart' = {<<i, tx[i].processing>> : i \in {j \in Ids : tx[j].status = "pending"}}
    /\ stat' = IdleStat
    /\ shutdown' = FALSE
    /\ posts' = posts \cup {<<r[1], r[2], r[3], r[4], "killed">> : r \in InFlight}
    /\ UNCHANGED <<storeVars, now, webhooks, enq, dropped>>

\* ----------------------------------------------------------------- shutdown
\* MessageProcessor.Shutdown: close(p.shutdown); a second close would panic
Shutdown ==
    /\ ~shutdown
    /\ shutdown' = TRUE
    /\ UNCHANGED <<posts, stat, storeVars, queue, now, ticker, sub, wrk, scan, retry, webhooks,
                   enq, dropped, crashes, atRestart>>

\* worker: the select takes the shutdown case and the goroutine returns.  With
\* a row on the queue as well, the select picks either case.
WorkerExit(w) ==
    /\ shutdown
    /\ wrk[w].pc = "idle"
    /\ wrk' = [wrk EXCEPT ![w].pc = "exited"]
    /\ UNCHANGED <<posts, shutdown, stat, storeVars, queue, now, ticker, sub, scan, retry,
                   webhooks, enq, dropped, crashes, atRestart>>

\* watchPendingMessages: the select takes the shutdown case and the goroutine
\* returns.  With a tick buffered as well, the select picks either case.
ScanExit ==
    /\ shutdown
    /\ scan.pc = "wait"
    /\ scan' = [scan EXCEPT !.pc = "exited"]
    /\ UNCHANGED <<posts, shutdown, stat, storeVars, queue, now, ticker, sub, wrk, retry,
                   webhooks, enq, dropped, crashes, atRestart>>

\* ----------------------------------------------------------- specifications
\* the worker pool: one caller of SendMessage, the workers and the scanner's
\* pending pickup
Next ==
    \/ Advance(ShortElapsed)
    \/ Submit({1}, MaxTx)
    \/ Worker(Workers)
    \/ PassA

Spec == Init /\ [][Next]_vars

\* the life of a row, up to its retry and its fallback: one caller of
\* SendMessage, one worker, the whole scanner and the retry planner
NextLife ==
    \/ Advance(MaxElapsed)
    \/ Submit({1}, LifeSubmits)
    \/ Worker({1})
    \/ PassA
    \/ PassB
    \/ RetryFailed

SpecLife == Init /\ [][NextLife]_vars

\* several concurrent callers of SendMessage, and the workers
NextRace ==
    \/ Submit(Submitters, MaxTx)
    \/ \E s \in Submitters : SubmitCreateFails(s)
    \/ Worker(Workers)
    \/ WorkerFails(Workers)

SpecRace == Init /\ [][NextRace]_vars

\* a kill and a restart of the process: one caller of SendMessage, one worker
\* and the scanner's pending pickup
NextCrash ==
    \/ Advance(ShortElapsed)
    \/ Submit({1}, MaxTx)
    \/ Worker({1})
    \/ PassA
    \/ Crash

SpecCrash == Init /\ [][NextCrash]_vars

\* the database writes failing, over quiet periods
NextFaults ==
    \/ \E d \in {RetryBackoff, UndeliveredAfter} : Elapse(d)
    \/ Submit({1}, LifeSubmits)
    \/ \E s \in {1} : SubmitCreateFails(s)
    \/ Worker({1})
    \/ WorkerFails({1})
    \/ PassA
    \/ PassAFails
    \/ PassB
    \/ PassBFails
    \/ RetryFailed
    \/ RetryCreateFails

SpecFaults == Init /\ [][NextFaults]_vars

\* the status query beside one message's life, over quiet periods
NextStatus ==
    \/ \E d \in {RetryBackoff, UndeliveredAfter} : Elapse(d)
    \/ Submit({1}, LifeSubmits)
    \/ Worker({1})
    \/ PassA
    \/ PassB
    \/ RetryFailed
    \/ \E i \in 1..MaxTx : GetMessageStatus(i)

SpecStatus == Init /\ [][NextStatus]_vars

\* several submissions beside the workers and the retry planner, over the
\* retry backoff
NextQuota ==
    \/ Elapse(RetryBackoff)
    \/ Submit({1}, MaxTx + 1)
    \/ Worker({1})
    \/ RetryFailed

SpecQuota == Init /\ [][NextQuota]_vars

\* provider selection over every registry: one call of SendMessage
InitSelect == InitIn(AllRegistries)
NextSelect == Submit({1}, LifeSubmits)

SpecSelect == InitSelect /\ [][NextSelect]_vars

\* the retry planner over every registry: one message, the retry backoff
NextRetry ==
    \/ Elapse(RetryBackoff)
    \/ Submit({1}, LifeSubmits)
    \/ Worker({1})
    \/ RetryFailed

SpecRetry == InitSelect /\ [][NextRetry]_vars

\* the scanner over every registry: one message, the non-delivery delay
NextFallback ==
    \/ Elapse(UndeliveredAfter)
    \/ Submit({1}, LifeSubmits)
    \/ Worker({1})
    \/ PassA
    \/ PassB

SpecFallback == InitSelect /\ [][NextFallback]_vars

\* the webhook fan-out over the bindings a user can have: two bindings of
\* the known user, each on or off and with or without a webhook, and a
\* binding of another user with a webhook
ForeignBinding == [Binding(1, TRUE, TRUE) EXCEPT !.userId = 2]
WebhookRegistries ==
    {[providers |-> (1 :> Provider("signal", TRUE)) @@ (2 :> Provider("email", TRUE)),
      bindings |-> <<Binding(1, s1, w1), Binding(2, s2, w2), ForeignBinding>>] :
        s1 \in BOOLEAN, w1 \in BOOLEAN, s2 \in BOOLEAN, w2 \in BOOLEAN}
InitWebhook == InitIn(WebhookRegistries)
NextWebhook ==
    \/ Submit({1}, LifeSubmits)
    \/ Worker({1})

SpecWebhook == InitWebhook /\ [][NextWebhook]_vars

\* the message endpoint: valid and invalid requests of two callers
NextSend ==
    \/ \E s \in Submitters : MessageInvalid(s)
    \/ Submit(Submitters, MaxTx + 1)
    \/ Worker({1})

SpecSend == Init /\ [][NextSend]_vars

\* the webhook POSTs of two messages
NextPost ==
    \/ Submit({1}, MaxTx)
    \/ Worker({1})
    \/ WebhookRequest

SpecPost == InitWebhook /\ [][NextPost]_vars

\* the fallback chain of one message over a quarter of an hour
InitChain == InitIn({RegistryPair, RegistrySingle})
NextChain ==
    \/ ElapseWithin(UndeliveredAfter, ChainElapsed)
    \/ Submit({1}, LifeSubmits)
    \/ Worker({1})
    \/ PassA
    \/ PassBSkip
    \/ PassBCreateUpTo(ChainTx)
    \/ PassBUpdate
    \/ PassBHistory

SpecChain == InitChain /\ [][NextChain]_vars

\* the same with the update of Pass B failing
NextChainFaults ==
    \/ NextChain
    \/ PassBUpdateFails

SpecChainFaults == InitChain /\ [][NextChainFaults]_vars

\* the shutdown signal during the life of one message
NextShutdown ==
    \/ \E d \in {RetryBackoff, UndeliveredAfter} : Elapse(d)
    \/ Submit({1}, LifeSubmits)
    \/ Worker({1})
    \/ WorkerExit(1)
    \/ PassA
    \/ PassB
    \/ ScanExit
    \/ RetryFailed
    \/ Shutdown

SpecShutdown == Init /\ [][NextShutdown]_vars

\* -------------------------------------------------------------------- claims
\* the workers that have taken row i off the queue and not yet written its outcome
Holding(i) == {w \in Workers : wrk[w].pc = "update" /\ wrk[w].id = i}

\* C1: in every reachable state and for every row, at most one worker is
\* processing the row (between dequeuing it and writing its outcome).
C1_AtMostOneWorker == \A i \in Ids : Cardinality(Holding(i)) <= 1

\* C2: every row is placed on the worker queue at most once over its lifetime;
\* a row enqueued directly by its creator is never enqueued again by Pass A.
C2_EnqueuedAtMostOnce == \A i \in Ids : enq[i] <= 1

\* the history rows of row i
HistoryRows(i) == {h \in history : h[1] = i}
\* nobody is between an update of row i and the MoveToHistory that follows it
Settled(i) ==
    /\ \A w \in Workers : ~(wrk[w].pc = "history" /\ wrk[w].id = i)
    /\ ~(scan.pc = "fbHistory" /\ Head(scan.sel) = i)

\* C3: a row whose status is success, failed or fallback_triggered has exactly
\* one history row, also once it went from success to fallback_triggered.
\* Stated for the rows that were queued once and that no handler is in the
\* middle of archiving.
C3_TerminalArchivedOnce ==
    \A i \in Ids :
        (tx[i].status \in Terminal /\ enq[i] <= 1 /\ Settled(i))
            => Cardinality(HistoryRows(i)) = 1

\* row i is within reach of a worker: Pass A can still select it, it is on the
\* queue, a worker holds it, or the scanner has selected it and not yet offered it
InReach(i) ==
    \/ ~tx[i].processing
    \/ i \in Range(queue)
    \/ \E w \in Workers : wrk[w].pc # "idle" /\ wrk[w].id = i
    \/ scan.pc \in {"lock", "offer"} /\ i \in Range(scan.sel)

\* C4: every row that is pending at a restart eventually reaches a terminal
\* status.  A pending row changes status only in the hands of a worker, and
\* gets there only through the queue, so the claim needs every such row, as
\* long as it is pending, to be within reach of a worker.
C4_NoLostTransactions ==
    \A r \in atRestart : tx[r[1]].status = "pending" => InReach(r[1])

\* the rows that were pending with processing = false at the last restart
FreeAtRestart == {r[1] : r \in {q \in atRestart : ~q[2]}}

\* C5: after a restart that finds N <= limit rows pending with processing =
\* false, the first run of the scanner sets processing = true on every one of
\* them and enqueues it: once that run is over, none of them was dropped.
\* Stated for the restarts after which no row is added, so that only the
\* scanner fills the queue.
C5_RecoveryComplete ==
    (/\ crashes > 0
     /\ ~scan.first
     /\ Ids = FreeAtRestart
     /\ Cardinality(FreeAtRestart) <= PendingLimit)
        => \A i \in FreeAtRestart : <<i, "passA">> \notin dropped

\* the rows SendMessage created for user u on day d
SubmittedOn(u, d) ==
    {i \in Ids : tx[i].origin = "submit" /\ tx[i].userId = u /\ tx[i].createdDay = d}

\* C6: for every user and UTC day, the number of rows created by SendMessage
\* never exceeds the user's daily limit, also with concurrent calls.
C6_DailyRateLimit ==
    \A i \in Ids : Cardinality(SubmittedOn(tx[i].userId, tx[i].createdDay)) <= DailyLimit

\* a step in which some handler makes its enqueue attempt
EnqueueAttempt ==
    \/ \E s \in Submitters : sub[s].pc = "enqueue" /\ sub'[s].pc # "enqueue"
    \/ scan.pc = "offer" /\ scan' # scan
    \/ scan.pc = "fbHistory" /\ scan' # scan
    \/ retry.pc = "enqueue" /\ retry' # retry

\* C7: the queue never holds more than its capacity; an enqueue attempt of
\* SendMessage, RetryFailedMessages, Pass A or Pass B on a full queue is never
\* blocked, and it leaves the queue as it is (the item is dropped).
C7_QueueBounded ==
    /\ [](/\ Len(queue) <= QueueCapacity
          /\ \A s \in Submitters : sub[s].pc = "enqueue" => ENABLED SubmitEnqueue(s)
          /\ scan.pc = "offer" => ENABLED ScanOffer
          /\ scan.pc = "fbHistory" => ENABLED PassBHistory
          /\ retry.pc = "enqueue" => ENABLED RetryEnqueue)
    /\ [][(QueueFull /\ EnqueueAttempt) => queue' = queue]_vars

\* C7 witness: the queue is full, and the retry planner and Pass A each had an
\* item dropped
C7_Witness ==
    /\ Len(queue) = QueueCapacity
    /\ \E i \in Ids : <<i, "retry">> \in dropped
    /\ \E i \in Ids : <<i, "passA">> \in dropped

\* C8: when the queue is full at submit time, SendMessage still returns
\* {id, pending}, the row stays pending with processing = false, and a later
\* Pass A selects and enqueues it: the row waits for Pass A, or Pass A is
\* about to offer it, or it has been enqueued.
C8_SubmitOnFullQueue ==
    \A i \in Ids :
        <<i, "submit">> \in dropped =>
            /\ \A s \in Submitters :
                   (sub[s].pc = "idle" /\ sub[s].id = i) => sub[s].result = "pending"
            /\ \/ tx[i].status = "pending" /\ ~tx[i].processing
               \/ scan.pc = "offer" /\ i \in Range(scan.sel)
               \/ enq[i] >= 1

\* C9: in every reachable state a row whose status is success, failed or
\* fallback_triggered has processing = false.
C9_TerminalUnreserved ==
    \A i \in Ids : tx[i].status \in Terminal => ~tx[i].processing

\* C10: a failed row has next_retry_at set, to the instant of the failure
\* plus three minutes, whatever the failure came from.
C10_FailedHasRetryTime ==
    /\ [](\A i \in Ids : tx[i].status = "failed" => tx[i].nextRetryAt # NoTime)
    /\ [][\A i \in Ids : (tx[i].status # "failed" /\ tx'[i].status = "failed")
                              => tx'[i].nextRetryAt = now + RetryBackoff]_vars

\* C10 witness: a row has just failed on a provider that is switched off
C10_Witness ==
    \E i \in Ids : /\ tx[i].status = "failed"
                    /\ tx[i].errorMessage = "inactive"
                    /\ tx[i].nextRetryAt = now + RetryBackoff

\* C11: every successor row, whether made by RetryFailedMessages for a failed
\* row or by checkUndeliveredMessages for a stale success row, carries the
\* retry count of its predecessor plus one.
C11_RetryCountIncrements ==
    \A i \in Ids :
        tx[i].parent # 0 => tx[i].retryCount = tx[tx[i].parent].retryCount + 1

\* the rows RetryFailedMessages made for the failed row f
RetrySuccessors(f) == {i \in Ids : tx[i].origin = "retry" /\ tx[i].parent = f}

\* C12: however often RetryFailedMessages runs, a failed row has at most one
\* successor made by it.
C12_LinearRetryChain ==
    \A f \in Ids : Cardinality(RetrySuccessors(f)) <= 1

\* the rows for which a call of RetryFailedMessages starting now creates a
\* successor
RetryPlan ==
    {f \in FailedRowsForRetry : RetryTarget(tx[f].userId, tx[f].providerId) # 0}

\* C13: RetryFailedMessages is idempotent: in the state one call returns in, a
\* second call finds no row to create a successor for, so it creates no row and
\* enqueues nothing.
C13_RetryIdempotent ==
    [][(retry.pc # "idle" /\ retry'.pc = "idle") => RetryPlan' = {}]_vars

SubmitChecked(s) ==
    /\ sub[s].pc = "idle"
    /\ sub'[s] # sub[s]
    /\ sub'[s].user = KnownUser

\* the user has a binding SendMessage can select
Usable(u) == FirstActive(GetUserProvidersByPriority(u)) # 0

\* C15: a rejected SendMessage creates no row, enqueues nothing and changes no
\* row; and with daily limit L a submission goes on to its row (and returns
\* pending) while fewer than L submissions were accepted that day, and returns
\* rateLimited once L were.
C15_RejectedSubmit ==
    /\ [][\A s \in Submitters :
            (SubmitChecked(s) /\ sub'[s].pc = "idle")
                => UNCHANGED <<tx, history, queue, enq>>]_vars
    /\ [][\A s \in Submitters :
            (SubmitChecked(s) /\ Usable(KnownUser))
                => IF Cardinality(SubmittedOn(KnownUser, StartOfDay(now))) < DailyLimit
                   THEN sub'[s].pc = "create"
                   ELSE sub'[s].result = "rateLimited"]_vars

\* the results of SendMessage that are errors
SubmitErrors == {"internal", "rateLimited", "noProviders"}

\* C16: for a user whose priority-ordered binding list is empty, SendMessage
\* ends in an error (and no acknowledgement).
C16_NoProvidersIsError ==
    \A s \in Submitters :
        (/\ sub[s].pc = "idle"
         /\ sub[s].user = KnownUser
         /\ sub[s].result # "none"
         /\ Len(GetUserProvidersByPriority(KnownUser)) = 0)
            => sub[s].result \in SubmitErrors

\* the bindings of user u, by position, whose provider and binding are both
\* active
BothActive(u) ==
    {j \in DOMAIN bindings : /\ bindings[j].userId = u
                             /\ bindings[j].status
                             /\ bindings[j].providerId \in DOMAIN providers
                             /\ providers[bindings[j].providerId].status}
\* those of them whose provider has type h
BothActiveOfType(u, h) == {j \in BothActive(u) : providers[bindings[j].providerId].type = h}
\* the binding of lowest priority number in the non-empty set S
Lowest(S) == CHOOSE j \in S : \A k \in S : j <= k
\* the provider the requested type h steers user u to
Steered(u, h) ==
    IF BothActiveOfType(u, h) # {} THEN bindings[Lowest(BothActiveOfType(u, h))].providerId
    ELSE bindings[Lowest(BothActive(u))].providerId

\* C17: with a non-empty requested type, SendMessage selects the binding of
\* lowest priority number whose provider has that type, provider and binding
\* both active, if there is one, and else the both-active binding of lowest
\* priority number; and the row it goes on to create targets such a provider.
C17_TypeSteering ==
    /\ [](\A h \in Hints \ {""} :
             BothActive(KnownUser) # {}
                 => SelectProvider(GetUserProvidersByPriority(KnownUser), h)
                        = Steered(KnownUser, h))
    /\ [][\A s \in Submitters :
            (sub[s].pc = "idle" /\ sub'[s].pc = "create")
                => \E h \in Hints :
                       sub'[s].providerId
                           = IF h = "" THEN bindings[Lowest(BothActive(KnownUser))].providerId
                             ELSE Steered(KnownUser, h)]_vars

\* SendMessage has selected an email provider although a both-active binding of
\* another type comes first, and created the row for it
C17_Witness ==
    \E i \in Ids :
        /\ tx[i].origin = "submit"
        /\ providers[tx[i].providerId].type = "email"
        /\ bindings[Lowest(BothActive(KnownUser))].providerId # tx[i].providerId

\* C18: every row, whether created by SendMessage, RetryFailedMessages or
\* checkUndeliveredMessages, targets a provider that is active and bound to the
\* row's user by an active binding (the registry does not change, so at the
\* row's creation too).
C18_ActiveTarget ==
    \A i \in Ids :
        \E j \in BothActive(tx[i].userId) : bindings[j].providerId = tx[i].providerId

\* the bindings of user u, by position in ascending priority: all of them, or
\* the active ones only
BindingsOf(u, activeOnly) ==
    {j \in DOMAIN bindings :
        bindings[j].userId = u /\ (activeOnly => bindings[j].status)}

\* of these bindings, the one immediately after the binding to provider p;
\* 0 if p has none of them or the last of them
After(u, activeOnly, p) ==
    LET at == {j \in BindingsOf(u, activeOnly) : bindings[j].providerId = p}
        later == {j \in BindingsOf(u, activeOnly) : \E a \in at : j > a}
    IN IF later = {} THEN 0 ELSE Lowest(later)

\* binding j exists, and it and its provider are active
Active(j) ==
    /\ j # 0
    /\ bindings[j].status
    /\ bindings[j].providerId \in DOMAIN providers
    /\ providers[bindings[j].providerId].status

\* what RetryFailedMessages does with a selected failed row, "immediately
\* after" being taken among the bindings BindingsOf(u, activeOnly): a pending
\* successor for the next provider and the same user, exactly when that next
\* binding and its provider are active
PlanOutcome(activeOnly) ==
    (retry.pc = "plan" /\ retry' # retry) =>
            LET f == Head(retry.sel)
                n == After(tx[f].userId, activeOnly, tx[f].providerId)
            IN IF Active(n)
               THEN /\ Len(tx') = Len(tx) + 1
                    /\ \A i \in Ids : tx'[i] = tx[i]
                    /\ tx'[Len(tx')].status = "pending"
                    /\ tx'[Len(tx')].providerId = bindings[n].providerId
                    /\ tx'[Len(tx')].userId = tx[f].userId
                    /\ tx'[Len(tx')].parent = f
                    /\ retry'.pc = "enqueue"
                    /\ retry'.fresh = Len(tx')
               ELSE /\ tx' = tx
                    /\ queue' = queue
                    /\ retry'.pc # "enqueue"

\* the successor created is then offered to the queue
OfferOutcome ==
    (retry.pc = "enqueue" /\ retry' # retry) =>
        /\ tx' = tx
        /\ queue' = IF QueueFull THEN queue ELSE Append(queue, retry.fresh)

DoneOk(w) == wrk[w].pc = "history" /\ wrk[w].out = "ok" /\ wrk'[w].pc = "idle"

\* C20: when the adapter's send returned ok, the worker leaves the active row
\* with status success, an empty error message and processing = false, a
\* history row of the row's id with status success exists, and a success
\* webhook fan-out has been fired for it.
C20_SuccessOutcome ==
    [][\A w \in Workers :
          DoneOk(w) =>
              LET i == wrk[w].id
              IN /\ tx'[i].status = "success"
                 /\ tx'[i].errorMessage = ""
                 /\ ~tx'[i].processing
                 /\ \E r \in history' : r[1] = i /\ r[2] = "success"
                 /\ \E h \in webhooks' : h[1] = i /\ h[2] = "success"]_vars

\* the outcomes in which the send itself returned an error
SendErrors == {"sendError", "notImplemented", "unsupported"}

\* C21: when the send returned an error (the email and the unsupported type
\* included), the worker writes status failed, the error message, next_retry_at
\* = now + 3 minutes and processing = false to the active row, then appends a
\* history row and fires a failed webhook fan-out.
C21_FailureOutcome ==
    /\ [][\A w \in Workers :
            (wrk[w].pc = "update" /\ wrk'[w].pc = "history" /\ wrk[w].out \in SendErrors)
                => LET i == wrk[w].id
                   IN /\ tx'[i].status = "failed"
                      /\ tx'[i].errorMessage = wrk[w].out
                      /\ tx'[i].nextRetryAt = now + RetryBackoff
                      /\ ~tx'[i].processing]_vars
    /\ [][\A w \in Workers :
            (wrk[w].pc = "history" /\ wrk'[w].pc = "idle" /\ wrk[w].out \in SendErrors)
                => /\ Cardinality(history') = Cardinality(history) + 1
                   /\ \E h \in webhooks' \ webhooks :
                          h[1] = wrk[w].id /\ h[2] = "failed"]_vars

\* the outcomes in which the row's provider is missing or switched off
NoProvider == {"notfound", "inactive"}

\* C22: when the provider of the dequeued row does not exist or is inactive,
\* the worker writes status failed, an error message, next_retry_at = now + 3
\* minutes and processing = false, then archives the row and fires the webhook
\* fan-out.
C22_NoProviderOutcome ==
    /\ [][\A w \in Workers :
            (wrk[w].pc = "update" /\ wrk'[w].pc = "history" /\ wrk[w].out \in NoProvider)
                => LET i == wrk[w].id
                   IN /\ tx'[i].status = "failed"
                      /\ tx'[i].errorMessage = wrk[w].out
                      /\ tx'[i].nextRetryAt = now + RetryBackoff
                      /\ ~tx'[i].processing]_vars
    /\ [][\A w \in Workers :
            (wrk[w].pc = "history" /\ wrk'[w].pc = "idle" /\ wrk[w].out \in NoProvider)
                => /\ Cardinality(history') = Cardinality(history) + 1
                   /\ \E h \in webhooks' \ webhooks : h[1] = wrk[w].id]_vars

\* the rows with status success, not reserved, last written five minutes ago
\* or earlier
Stale == {i \in Ids : /\ tx[i].status = "success"
                      /\ tx[i].processing = FALSE
                      /\ now - tx[i].updatedAt >= UndeliveredAfter}

\* the first of the user's bindings (all of them, or the active ones only) to
\* another provider than p; 0 if there is none
Alternative(u, activeOnly, p) ==
    LET other == {j \in BindingsOf(u, activeOnly) : bindings[j].providerId # p}
    IN IF other = {} THEN 0 ELSE Lowest(other)

\* what one run of checkUndeliveredMessages does: it selects the stale rows;
\* for each, if the user has a binding to another provider, it creates a
\* pending successor for the first such binding and the same user, flips the
\* original to fallback_triggered with an error message, archives it and offers
\* the successor to the queue; it writes no other row
FallbackOutcome(activeOnly) ==
    /\ (scan.pc = "passB" /\ scan' # scan) =>
           /\ Range(scan'.sel) = Stale
           /\ tx' = tx
    /\ (scan.pc = "fbCreate" /\ scan' # scan) =>
           LET m == Head(scan.sel)
               n == Alternative(tx[m].userId, activeOnly, tx[m].providerId)
           IN IF n # 0
              THEN /\ Len(tx') = Len(tx) + 1
                   /\ \A i \in Ids : tx'[i] = tx[i]
                   /\ tx'[Len(tx')].status = "pending"
                   /\ tx'[Len(tx')].providerId = bindings[n].providerId
                   /\ tx'[Len(tx')].userId = tx[m].userId
                   /\ tx'[Len(tx')].parent = m
                   /\ scan'.fresh = Len(tx')
              ELSE /\ tx' = tx
                   /\ queue' = queue
                   /\ history' = history
    /\ (scan.pc = "fbUpdate" /\ scan' # scan) =>
           LET m == Head(scan.sel)
           IN /\ tx'[m].status = "fallback_triggered"
              /\ tx'[m].errorMessage # ""
              /\ \A i \in Ids \ {m} : tx'[i] = tx[i]
    /\ (scan.pc = "fbHistory" /\ scan' # scan) =>
           /\ \E r \in history' \ history : r[1] = Head(scan.sel)
           /\ queue' = IF QueueFull THEN queue ELSE Append(queue, scan.fresh)
           /\ tx' = tx

FanOuts(i, st) == {h \in webhooks : h[1] = i /\ h[2] = st}

\* C24: for every transition of a row into success, failed or
\* fallback_triggered exactly one webhook fan-out is fired, with the row's id
\* and that status.  Stated for the rows that were queued once and that no
\* handler is in the middle of archiving: such a row has one fan-out with the
\* status it is in.
C24_WebhookPerTransition ==
    \A i \in Ids :
        (tx[i].status \in Terminal /\ enq[i] <= 1 /\ Settled(i))
            => Cardinality(FanOuts(i, tx[i].status)) = 1

\* the bindings of user u that are active and have a webhook enabled with a
\* URL
Eligible(u) ==
    {j \in DOMAIN bindings : /\ bindings[j].userId = u
                             /\ bindings[j].status
                             /\ bindings[j].webhook}

\* C25: a fan-out for a row of user u posts to a binding only if the
\* binding belongs to u, is active and has a webhook enabled with a
\* non-empty URL, and it posts to every such binding.
C25_WebhookEligibility ==
    \A h \in webhooks : h[4] = Eligible(tx[h[1]].userId)

\* caller s has its answer
Answered(s) == sub[s].pc = "idle" /\ sub[s].result # "none"

\* C26: the message endpoint answers 202 with the id, status and message of
\* the use case's response exactly when the use case returned a response
\* without error, 500 when the use case returned an error, and 400 when the
\* request failed validation, and then the use case was not called (the step
\* that answers 400 starts from an idle caller and changes no row, no queue).
C26_SendOutcome ==
    /\ [](\A s \in Submitters :
            Answered(s) =>
                /\ sub[s].answer.code = StatusAccepted <=> sub[s].result = "pending"
                /\ sub[s].result = "pending" =>
                       /\ sub[s].answer.id = sub[s].id
                       /\ sub[s].id \in Ids
                       /\ sub[s].answer.status = "pending"
                       /\ sub[s].answer.message = "Message queued for processing"
                /\ sub[s].result \in UseCaseErrors =>
                       sub[s].answer.code = StatusInternalServerError
                /\ sub[s].result = "invalid" => sub[s].answer.code = StatusBadRequest)
    /\ [][\A s \in Submitters :
             (sub'[s] # sub[s] /\ sub'[s].answer.code = StatusBadRequest)
                 => /\ sub[s].pc = "idle" /\ sub'[s].pc = "idle"
                    /\ UNCHANGED <<storeVars, queue, enq>>]_vars

\* one caller was answered 202 and the other 400
C26_Witness ==
    \E s \in Submitters, t \in Submitters :
        /\ sub[s].answer.code = StatusAccepted
        /\ sub[t].answer.code = StatusBadRequest

\* C27: the update of the active row and the history insert of one outcome
\* are one atomic step: in no reachable state, a crash between the two
\* included, is there a row with a terminal status and no history row with
\* that status.  Stated for the rows that no handler is in the middle of
\* archiving.
C27_AtomicOutcome ==
    \A i \in Ids :
        (tx[i].status \in Terminal /\ Settled(i))
            => \E h \in HistoryRows(i) : h[2] = tx[i].status

\* Pass A puts a row on the queue in this step
PassAOffers(i) ==
    /\ scan.pc = "offer"
    /\ scan' # scan
    /\ Head(scan.sel) = i
    /\ queue' = Append(queue, i)

\* C28: Pass A reserves before it enqueues: every row it selected is
\* committed with processing=true before any of them is offered (the run
\* goes from its lock step to its offers, never back), so a row that Pass A
\* hands to the workers is flagged processing=true in the store when it goes
\* onto the queue.
C28_ReserveBeforeOffer ==
    /\ [][(scan.pc = "lock" /\ scan'.pc = "offer")
              => \A i \in Range(scan.sel) : tx'[i].processing]_vars
    /\ [][scan'.pc = "offer" => scan.pc \in {"lock", "offer"}]_vars
    /\ [][\A i \in Ids : PassAOffers(i) => tx[i].processing]_vars

\* the rows Pass A flagged and then dropped on a full queue
Stranded == {d[1] : d \in {e \in dropped : e[2] = "passA"}}

\* C29: a row that Pass A flagged processing=true and whose enqueue was
\* dropped on a full queue is never selected again by Pass A, Pass B or
\* retryFailed, and stays pending with processing=true in every later state.
C29_StrandedReservation ==
    \A i \in Stranded :
        /\ tx[i].status = "pending"
        /\ tx[i].processing
        /\ i \notin Range(scan.sel)
        /\ i \notin Range(retry.sel)

\* C30: after the shutdown signal the queue accepts no new items: every
\* enqueue attempted after Shutdown, from submit, retryFailed or the scanner,
\* is dropped, and the queue does not grow.
C30_NoEnqueueAfterShutdown ==
    [][shutdown => /\ Len(queue') <= Len(queue)
                   /\ \A i \in Ids : enq'[i] = enq[i]]_vars

\* worker w takes a row from the queue in this step
Dequeues(w) == wrk[w].pc = "idle" /\ wrk'[w].pc = "update"

\* C31: after the shutdown signal a worker completes at most the transaction
\* it holds, takes no further transaction from the queue, and exits: no
\* worker dequeues in a step that starts with the signal given, and a worker
\* that has exited stays so.
C31_ShutdownStopsWorkers ==
    [][shutdown => \A w \in Workers :
                      /\ ~Dequeues(w)
                      /\ wrk[w].pc = "exited" => wrk'[w].pc = "exited"]_vars

\* the failed row f has no usable next binding, "next" being taken among the
\* bindings BindingsOf(u, activeOnly): its provider is last among them or
\* absent from them, or the binding after it or that binding's provider is
\* inactive
NoNext(f, activeOnly) ==
    ~Active(After(tx[f].userId, activeOnly, tx[f].providerId))

\* RetryFailedMessages decides on such a row: nothing is created, nothing is
\* queued, no row is written
SkipOutcome(activeOnly) ==
    (retry.pc = "plan" /\ retry' # retry /\ NoNext(Head(retry.sel), activeOnly)) =>
        /\ tx' = tx
        /\ history' = history
        /\ queue' = queue
        /\ enq' = enq
        /\ dropped' = dropped
        /\ retry'.pc # "enqueue"

\* C32 as stated: for a due failed row whose provider is last in the user's
\* priority ordering, is absent from it, or whose next binding or next
\* provider is inactive, retryFailed creates no transaction, enqueues nothing
\* and leaves the failed row unchanged.
C32_AsStated == [][SkipOutcome(FALSE)]_vars

\* C32, amended: the same with the ordering taken among the user's active
\* bindings, so that an inactive binding is passed over and not a reason to
\* skip.
C32_RetrySkip == [][SkipOutcome(TRUE)]_vars

\* the planner is deciding on a due failed row whose binding is followed by
\* an active binding to an inactive provider
C32_Witness ==
    /\ retry.pc = "plan"
    /\ LET f == Head(retry.sel)
           n == After(tx[f].userId, TRUE, tx[f].providerId)
       IN /\ tx[f].status = "failed"
          /\ tx[f].nextRetryAt <= now
          /\ n # 0
          /\ bindings[n].providerId \in DOMAIN providers
          /\ ~providers[bindings[n].providerId].status

\* the user of row m has no binding, active or not, to another provider
NoAlternative(m) == Alternative(tx[m].userId, FALSE, tx[m].providerId) = 0

\* C33: for a stale success row whose user has no binding with a providerId
\* different from the row's, Pass B creates no transaction, adds no history
\* row, enqueues nothing and leaves the row's status as success: the step
\* that decides on the row writes nothing, and no such row is ever
\* fallback_triggered or the parent of a fallback successor.
C33_PassBSkip ==
    /\ [][(scan.pc = "fbCreate" /\ scan' # scan /\ NoAlternative(Head(scan.sel)))
              => /\ tx' = tx
                 /\ history' = history
                 /\ queue' = queue
                 /\ enq' = enq
                 /\ dropped' = dropped
                 /\ scan'.pc \in {"wait", "fbCreate"}]_vars
    /\ [](\A m \in Ids : NoAlternative(m) =>
              /\ tx[m].status # "fallback_triggered"
              /\ \A i \in Ids : ~(tx[i].origin = "fallback" /\ tx[i].parent = m))

\* a tick run of the scanner is over and has left a stale success row, whose
\* user has no other provider bound, as it was
C33_Witness ==
    /\ scan.pc = "wait"
    /\ ~scan.first
    /\ ~ticker
    /\ \E m \in Stale : NoAlternative(m) /\ history = {<<m, "success", 1>>}

\* C34: a webhook POST is attempted once and never retried; the worker does
\* not wait for it (the step that starts the POSTs leaves the worker free for
\* its next transaction); and the end of a POST, whatever its outcome,
\* changes no transaction row, no history row and not the queue.
C34_WebhookFireAndForget ==
    /\ [](\A r \in Started : Cardinality(Ended(r)) <= 1)
    /\ [][\A w \in Workers : (wrk[w].pc = "history" /\ wrk'[w] # wrk[w])
                                  => wrk'[w] = IdleWrk /\ posts' = posts]_vars
    /\ [][posts' # posts
             => /\ UNCHANGED <<tx, history, queue, enq, wrk, webhooks>>
                /\ \A q \in posts : q \in posts'
                /\ Cardinality(posts') = Cardinality(posts) + 1]_vars

\* a worker is on its next transaction while a POST for the one before is in
\* flight, and another POST has ended in an error and was not sent again
C34_Witness ==
    /\ \E w \in Workers, r \in InFlight : wrk[w].pc = "update" /\ wrk[w].id # r[1]
    /\ \E q \in posts : q[5] = "error"

\* the status changes a row may make
Monotone == {<<"pending", "success">>, <<"pending", "failed">>,
             <<"success", "fallback_triggered">>}

\* C35: a row's status only moves pending -> success, pending -> failed or
\* success -> fallback_triggered: it never returns to pending, a failed or
\* fallback_triggered row never changes status again, and a success row never
\* becomes failed.
C35_MonotoneStatus ==
    [][\A i \in Ids :
          tx'[i].status # tx[i].status => <<tx[i].status, tx'[i].status>> \in Monotone]_vars

\* C36: every history row has status success, failed or fallback_triggered,
\* never pending, also when the update of the active row that precedes the
\* archive step failed.
C36_HistoryTerminal == \A h \in history : h[2] \in Terminal

\* the number of fallback successors between row j and the row its chain
\* started from
RECURSIVE Generation(_)
Generation(j) ==
    IF tx[j].origin = "fallback" /\ tx[j].parent # 0
    THEN 1 + Generation(tx[j].parent)
    ELSE 0

\* C37: the fallback chain of a submission is finite: with a fixed set of
\* bindings whose adapters succeed, the transactions descending from one
\* submission are at most as many as the user's bindings, so that no
\* successor is further down the chain than that number.
C37_FiniteFallbackChain ==
    \A j \in Ids : Generation(j) <= Cardinality(BindingsOf(tx[j].userId, FALSE))

\* the fallback successors Pass B created for row m
FallbackSuccessors(m) == {i \in Ids : tx[i].origin = "fallback" /\ tx[i].parent = m}

\* C38: over any number of scanner ticks a row that reached success is the
\* origin of at most one fallback transaction, also when the update that
\* flips it to fallback_triggered fails.
C38_OneFallbackPerOriginal ==
    \A m \in Ids : Cardinality(FallbackSuccessors(m)) <= 1

\* C39: quota is used up by submissions only: SendMessage for user u returns
\* rateLimited only if u has at least the daily limit of accepted submissions
\* in the current UTC day; the successors that retryFailed or Pass B created
\* for u do not count.
C39_QuotaBySubmissions ==
    [][\A s \in Submitters :
          (SubmitChecked(s) /\ sub'[s].result = "rateLimited")
              => Cardinality(SubmittedOn(KnownUser, StartOfDay(now))) >= DailyLimit]_vars

====
